---- MODULE Spec2Model ----
(***************************************************************************)
(* pyvac: the view-dispatch base layer (pyvac/views/base.py) and the LDAP  *)
(* helper (pyvac/helpers/ldap.py) as state machines.                       *)
(*                                                                         *)
(* Strings are sequences of one-character strings, so that startswith and  *)
(* split('.') are computed, not assumed.  A dict is a function whose       *)
(* DOMAIN is its key set.  None is the object reference of kind "none".    *)
(***************************************************************************)
EXTENDS Integers, Sequences, FiniteSets, TLC

\* ------------------------------------------------------------------ bounds
\* identifiers of the relational store: 1..MaxId
MaxId == 2
\* distinct non-empty submitted values
MaxVal == 1
\* errors one validation stage can report
MaxErrs == 2
\* LdapWrapper instances built in one run
MaxClients == 3

Ids == 1..MaxId

\* ------------------------------------------------------------- strings
\* the model's __tablename__ (the "model name" of the form prefix)
Tablename == <<"u">>

\* the form fields a dispatched request may carry besides the two markers
RequestKeys == { <<"u", ".", "a">> }

\* submitted values: '' and MaxVal non-empty ones
FieldVals == { <<>> } \cup { <<i>> : i \in 1..MaxVal }

\* the columns of the model's table that a flush writes
Columns == { <<"a">> }

\* str.startswith
StartsWith(s, prefix) ==
  /\ Len(s) >= Len(prefix)
  /\ SubSeq(s, 1, Len(prefix)) = prefix

\* s.split('.').pop(): what follows the last '.', or all of s
LastDot(s) ==
  LET dots == { i \in 1..Len(s) : s[i] = "." }
  IN  IF dots = {} THEN 0 ELSE CHOOSE i \in dots : \A j \in dots : j <= i

SplitPop(s) == SubSeq(s, LastDot(s) + 1, Len(s))

\* ------------------------------------------------------------- objects
\* a python reference to a model instance: None, a fresh instance, or the
\* instance the session loaded for a stored row
NoneObj == [kind |-> "none", id |-> 0, attrs |-> <<>>]

NewObj == [kind |-> "new", id |-> 0, attrs |-> <<>>]

LoadedObj(i, row) == [kind |-> "loaded", id |-> i, attrs |-> row]

\* the column values of an instance, as a flush writes them
RowOf(obj) == [c \in (DOMAIN obj.attrs) \cap Columns |-> obj.attrs[c]]

\* ------------------------------------------------------------ session
\* Model.by_id(session, id): the instance of the stored row, None when there
\* is no such row (the lookup ViewBase.__init__ tests with "if self.user")
by_id(st, i) == IF i \in DOMAIN st THEN LoadedObj(i, st[i]) ELSE NoneObj

\* ------------------------------------------------------------ requests
ViewKinds == {"View", "Redirect", "Create", "Edit", "Delete"}

\* request.params: the two markers and the form fields (a dict over some keys)
ParamSets ==
  UNION { [K -> FieldVals] : K \in SUBSET RequestKeys }

\* the callers ViewBase.__init__ resolves: no login (anonymous), or a login
\* and what User.by_login found for it (None, or a user and its two flags)
Callers ==
  { [login |-> FALSE, user |-> FALSE, is_admin |-> FALSE, is_super |-> FALSE] }
  \cup { [login |-> TRUE, user |-> FALSE, is_admin |-> FALSE, is_super |-> FALSE] }
  \cup [login : {TRUE}, user : {TRUE}, is_admin : BOOLEAN, is_super : BOOLEAN]

NoRequest ==
  [view |-> "View", cancelled |-> FALSE, submitted |-> FALSE,
   fields |-> <<>>, id |-> 1, suppress |-> FALSE]

\* ----------------------------------------------------------- responses
\* what render returns: a redirect (HTTPFound) or a dict of template
\* variables; "unbound" is the local `response` of __call__ before render
\* has returned
Unbound ==
  [kind |-> "unbound", keys |-> {}, errors |-> <<>>, model |-> NoneObj,
   requests_count |-> "none"]

\* RedirectView.redirect
redirect ==
  [kind |-> "redirect", keys |-> {}, errors |-> <<>>, model |-> NoneObj,
   requests_count |-> "none"]

\* ViewBase.render
BaseDict ==
  [kind |-> "dict", keys |-> {}, errors |-> <<>>, model |-> NoneObj,
   requests_count |-> "none"]

\* the rv of CreateView.render
FormDict(errors, model) ==
  [kind |-> "dict", keys |-> {"errors", "model", "csrf_token"},
   errors |-> errors, model |-> model, requests_count |-> "none"]

\* the dict DeleteView.render returns
ConfirmDict(model) ==
  [kind |-> "dict", keys |-> {"model"}, errors |-> <<>>, model |-> model,
   requests_count |-> "none"]

\* the errors a validation stage reports
StructErrs(n) == [i \in 1..n |-> <<"structural", i>>]

SemErrs(n) == [i \in 1..n |-> <<"semantic", i>>]

\* ------------------------------------------------------- CreateView
\* CreateView.parse_form: kwargs[k.split('.').pop()] = v for the params with
\* a true value whose key starts with the table name
parse_form(fields) ==
  LET match == { k \in DOMAIN fields :
                   Len(fields[k]) > 0 /\ StartsWith(k, Tablename) }
  IN  [n \in { SplitPop(k) : k \in match } |->
         fields[CHOOSE k \in match : SplitPop(k) = n]]

\* CreateView.update_model: setattr(model, k, v) for each parsed item
update_model(model, fields) ==
  LET kwargs == parse_form(fields)
  IN  [model EXCEPT !.attrs = [n \in (DOMAIN model.attrs) \cup (DOMAIN kwargs) |->
                                 IF n \in DOMAIN kwargs THEN kwargs[n]
                                 ELSE model.attrs[n]]]

\* CreateView.get_model / EditView.get_model
get_model(view, st, i) == IF view = "Edit" THEN by_id(st, i) ELSE NewObj

\* what a render leaves behind: how it ended ("return" or "raise"), the
\* response or the exception, the calls it made in order, the model it
\* worked on, and whether it called session.add / session.delete
Rendered(how, resp, exc, calls, model, added, deleted) ==
  [how |-> how, response |-> resp, exc |-> exc, calls |-> calls,
   model |-> model, added |-> added, deleted |-> deleted]

\* lines 173-179 of CreateView.render
FormReturn(calls, errors, model) ==
  Rendered("return", FormDict(errors, model), "none",
           calls \o <<"get_csrf_token", "update_view">>, model, FALSE, FALSE)

\* ValidateAndSave with the ModelError swallowed: its errors are not
\* appended, so the draft is staged although model.validate failed
ValidateAndSave_ModelErrorDropped(calls, model, fields, nSem) ==
  IF model.kind = "none"
  THEN Rendered("raise", Unbound, "AttributeError",
                calls \o <<"update_model">>, model, FALSE, FALSE)
  ELSE Rendered("return", redirect, "none",
                calls \o <<"update_model", "model.validate", "save_model",
                           "redirect">>,
                update_model(model, fields), TRUE, FALSE)

\* lines 162-171: the error list is empty after self.validate
\* nSem: the errors model.validate raises in a ModelError (0: it returns)
ValidateAndSave(calls, model, fields, nSem) ==
  IF model.kind = "none"
  THEN \* setattr(None, ...) or None.validate: AttributeError, not a ModelError
       Rendered("raise", Unbound, "AttributeError",
                calls \o <<"update_model">>, model, FALSE, FALSE)
  ELSE LET updated == update_model(model, fields)
           c == calls \o <<"update_model", "model.validate">>
           errors == SemErrs(nSem)
       IN  IF errors = <<>>
           THEN Rendered("return", redirect, "none",
                         c \o <<"save_model", "redirect">>, updated, TRUE, FALSE)
           ELSE FormReturn(c, errors, updated)

\* CreateView.render without the 'form.submitted' test: every request that
\* is not cancelled is validated and saved
CreateRender_SubmittedUnchecked(req, st, nStruct, nSem) ==
  IF req.cancelled
  THEN Rendered("return", redirect, "none", <<"redirect">>, NoneObj, FALSE, FALSE)
  ELSE IF StructErrs(nStruct) # <<>>
       THEN FormReturn(<<"get_model", "validate">>, StructErrs(nStruct),
                       get_model(req.view, st, req.id))
       ELSE ValidateAndSave(<<"get_model", "validate">>,
                            get_model(req.view, st, req.id), req.fields, nSem)

\* CreateView.render with the model obtained before the cancellation test
CreateRender_LoadBeforeCancel(req, st, nStruct, nSem) ==
  LET model == get_model(req.view, st, req.id)
      c == <<"get_model">>
  IN  IF req.cancelled
      THEN Rendered("return", redirect, "none", c \o <<"redirect">>, model,
                    FALSE, FALSE)
      ELSE IF ~req.submitted
           THEN FormReturn(c, <<>>, model)
           ELSE IF StructErrs(nStruct) # <<>>
                THEN FormReturn(c \o <<"validate">>, StructErrs(nStruct), model)
                ELSE ValidateAndSave(c \o <<"validate">>, model, req.fields, nSem)

\* CreateView.render with update_model moved before the structural test:
\* the submitted values are applied whatever self.validate reported
CreateRender_UpdateBeforeTest(req, st, nStruct, nSem) ==
  IF req.cancelled
  THEN Rendered("return", redirect, "none", <<"redirect">>, NoneObj, FALSE, FALSE)
  ELSE LET model == get_model(req.view, st, req.id)
           c == <<"get_model">>
       IN  IF ~req.submitted
           THEN FormReturn(c, <<>>, model)
           ELSE IF StructErrs(nStruct) # <<>> /\ model.kind # "none"
                THEN FormReturn(c \o <<"validate", "update_model">>,
                                StructErrs(nStruct),
                                update_model(model, req.fields))
                ELSE ValidateAndSave(c \o <<"validate">>, model, req.fields, nSem)

\* CreateView.render (EditView inherits it)
\* nStruct: the errors the subtype's validate appends
CreateRender(req, st, nStruct, nSem) ==
  IF req.cancelled
  THEN Rendered("return", redirect, "none", <<"redirect">>, NoneObj, FALSE, FALSE)
  ELSE LET model == get_model(req.view, st, req.id)
           c == <<"get_model">>
       IN  IF ~req.submitted
           THEN FormReturn(c, <<>>, model)
           ELSE IF StructErrs(nStruct) # <<>>
                THEN FormReturn(c \o <<"validate">>, StructErrs(nStruct), model)
                ELSE ValidateAndSave(c \o <<"validate">>, model, req.fields, nSem)

\* ------------------------------------------------------- DeleteView
\* DeleteView.render without the 'form.submitted' test: the model is deleted
\* on the first request
DeleteRender_Unconfirmed(req, st) ==
  LET model == by_id(st, req.id)
  IN  IF model.kind = "none"
      THEN Rendered("raise", Unbound, "UnmappedInstanceError",
                    <<"by_id", "delete">>, model, FALSE, FALSE)
      ELSE Rendered("return", redirect, "none",
                    <<"by_id", "delete", "redirect">>, model, FALSE, TRUE)

\* DeleteView.render; session.delete(None) raises UnmappedInstanceError
DeleteRender(req, st) ==
  LET model == by_id(st, req.id)
  IN  IF req.submitted
      THEN IF model.kind = "none"
           THEN Rendered("raise", Unbound, "UnmappedInstanceError",
                         <<"by_id", "delete">>, model, FALSE, FALSE)
           ELSE Rendered("return", redirect, "none",
                         <<"by_id", "delete", "redirect">>, model, FALSE, TRUE)
      ELSE Rendered("return", ConfirmDict(model), "none", <<"by_id">>,
                    model, FALSE, FALSE)

\* self.render() of each view class
render(req, st, nStruct, nSem) ==
  CASE req.view = "View" ->
         Rendered("return", BaseDict, "none", <<>>, NoneObj, FALSE, FALSE)
    [] req.view = "Redirect" ->
         Rendered("return", redirect, "none", <<"redirect">>, NoneObj, FALSE, FALSE)
    [] req.view \in {"Create", "Edit"} -> CreateRender(req, st, nStruct, nSem)
    [] req.view = "Delete" -> DeleteRender(req, st)

\* ------------------------------------------------------- View
\* the role tests in the other order: a delegated approver who is also an
\* administrator gets the approver's count
CountFor_SuperFirst(who) ==
  IF who.is_super THEN "by_manager"
  ELSE IF who.is_admin THEN "all_for_admin"
  ELSE "by_user"

\* the count View.update_response computes for a user: lines 77-87
CountFor(who) ==
  IF who.is_admin THEN "all_for_admin"
  ELSE IF who.is_super THEN "by_manager"
  ELSE "by_user"

\* View.update_response on a response it can finish: a dict gets the global
\* context (and the count when self.user is set), a redirect is left alone
update_response(resp, who) ==
  IF resp.kind = "dict"
  THEN [resp EXCEPT !.keys = @ \cup {"pyvac"},
                    !.requests_count = IF who.user THEN CountFor(who) ELSE "none"]
  ELSE resp

\* whether update_response queries the store (and so can fail on it)
QueriesCount(resp, who) == resp.kind = "dict" /\ who.user

\* the Request queries one update_response makes, in order
CountCalls(resp, who) ==
  IF QueriesCount(resp, who) THEN <<CountFor(who)>> ELSE <<>>

\* ------------------------------------------------------- session.flush
\* whether the session has anything to write
HasPending(model, added, deleted) ==
  \/ model.kind = "new" /\ added
  \/ model.kind = "loaded"

FreeId(st) == CHOOSE i \in Ids \ DOMAIN st : \A j \in Ids \ DOMAIN st : i <= j

\* session.flush(): INSERT the added instance, DELETE the deleted one,
\* UPDATE the loaded instance with its current attributes
flush(st, model, added, deleted) ==
  CASE model.kind = "new" /\ added ->
         [i \in (DOMAIN st) \cup {FreeId(st)} |->
            IF i \in DOMAIN st THEN st[i] ELSE RowOf(model)]
    [] model.kind = "loaded" /\ deleted ->
         [i \in (DOMAIN st) \ {model.id} |-> st[i]]
    [] model.kind = "loaded" /\ ~deleted ->
         [st EXCEPT ![model.id] = RowOf(model)]
    [] OTHER -> st

\* on_error answering False whatever the class: every exception is swallowed
on_error_AlwaysFalse(req) == FALSE

\* ViewBase.on_error: True unless the subclass overrides it to return False
on_error(req) == ~req.suppress

\* ------------------------------------------------------- LdapWrapper
\* the base DNs a configuration file may name
Bases == {"dc=a", "dc=b"}

\* the configuration files configure() may be given, by what
\* LdapWrapper.__init__ meets: the file opens, holds every key, the server
\* answers, the system bind is accepted
ConfigFiles ==
  [readable : BOOLEAN, complete : BOOLEAN, reachable : BOOLEAN,
   system_ok : BOOLEAN, basedn : Bases]

\* LdapWrapper.__init__: the exception it raises, "none" when it returns
LdapWrapperError(conf) ==
  IF ~conf.readable THEN "IOError"
  ELSE IF ~conf.complete THEN "KeyError"
  ELSE IF ~conf.reachable THEN "SERVER_DOWN"
  ELSE IF ~conf.system_ok THEN "INVALID_CREDENTIALS"
  ELSE "none"

\* the instance LdapWrapper.__init__ leaves: its base and its connection,
\* bound as the system identity
\* conf['system_dn']
SystemDn == <<"c", "n", "=", "s", "y", "s", ",", "d", "c", "=", "a">>

LdapWrapper(conf) == [base |-> conf.basedn, bound |-> SystemDn]

\* LdapCache.from_config
from_config(conf) == LdapWrapper(conf)

\* __new__ without the test: cls._instance is returned as it is
NotInitialized_Unchecked(inst) == FALSE

\* LdapCache.__new__: "if not cls._instance" (0 is None)
NotInitialized(inst) == inst = 0

\* ---------------------------------------------- LdapWrapper operations
\* the configuration LdapWrapper.__init__ keeps: conf['search_filter'],
\* conf['login_attr'], conf['country_attr'], conf['manager_attr'],
\* conf['mail_attr'], conf['firstname_attr'], conf['lastname_attr'],
\* conf['system_dn'], conf['basedn']
SearchFilter == <<"(", "&", "(", "o", "=", "p", ")", "(", "%", "s", ")", ")">>

LoginAttr == <<"c", "n">>

CountryAttr == <<"c">>

ManagerAttr == <<"m", "a", "n", "a", "g", "e", "r">>

MailAttr == <<"m", "a", "i", "l">>

FirstnameAttr == <<"g", "i", "v", "e", "n", "N", "a", "m", "e">>

LastnameAttr == <<"s", "n">>

BaseDn == <<"d", "c", "=", "a">>

\* the required_fields of _search_by_item
RequiredFields ==
  << <<"c", "n">>, <<"m", "a", "i", "l">>, <<"u", "i", "d">>, <<"g", "i", "v", "e", "n", "N", "a", "m", "e">>, <<"s", "n">>, <<"m", "a", "n", "a", "g", "e", "r">> >>

\* the `required` list of update_user
UpdateFields ==
  << <<"o", "b", "j", "e", "c", "t", "C", "l", "a", "s", "s">>, <<"e", "m", "p", "l", "o", "y", "e", "e", "T", "y", "p", "e">>, <<"c", "n">>, <<"g", "i", "v", "e", "n", "N", "a", "m", "e">>, <<"s", "n">>, <<"m", "a", "n", "a", "g", "e", "r">>, <<"m", "a", "i", "l">>,
     <<"o", "u">>, <<"u", "i", "d">> >>

\* template % item, for a template with "%s" in it
RECURSIVE Format(_, _)
Format(t, item) ==
  IF t = <<>> THEN <<>>
  ELSE IF Len(t) >= 2 /\ t[1] = "%" /\ t[2] = "s"
       THEN item \o Format(SubSeq(t, 3, Len(t)), item)
       ELSE <<t[1]>> \o Format(Tail(t), item)

\* s.split(c)
RECURSIVE Split(_, _)
Split(s, c) ==
  LET at == { i \in 1..Len(s) : s[i] = c }
  IN  IF at = {} THEN <<s>>
      ELSE LET i == CHOOSE k \in at : \A j \in at : k <= j
           IN  <<SubSeq(s, 1, i - 1)>> \o Split(SubSeq(s, i + 1, Len(s)), c)

\* one attribute=value of an RDN, as the pair (attribute, value)
Ava(s) ==
  LET at == { i \in 1..Len(s) : s[i] = "=" }
      i == CHOOSE k \in at : \A j \in at : k <= j
  IN  <<SubSeq(s, 1, i - 1), SubSeq(s, i + 1, Len(s))>>

\* ldap.dn.str2dn: the RDNs of a DN in order, each the list of its
\* attribute=value pairs
str2dn(s) ==
  LET rdns == Split(s, ",")
  IN  [i \in 1..Len(rdns) |->
         LET avas == Split(rdns[i], "+")
         IN  [j \in 1..Len(avas) |-> Ava(avas[j])]]

\* the first AVA of the first RDN whose first AVA names `attr`: the
\* "for rdn in dn.str2dn(user_dn): rdn = rdn[0]; if rdn[0] == attr: return
\* rdn[1]" of _extract_country and _extract_cn; None is <<>>
ExtractFirst(user_dn, attr) ==
  LET rdns == str2dn(user_dn)
      hits == { i \in 1..Len(rdns) : rdns[i][1][1] = attr }
  IN  IF hits = {} THEN <<>>
      ELSE rdns[CHOOSE i \in hits : \A j \in hits : i <= j][1][2]

\* LdapWrapper._extract_country
extract_country(user_dn) == ExtractFirst(user_dn, CountryAttr)

\* LdapWrapper._extract_cn
extract_cn(user_dn) == ExtractFirst(user_dn, LoginAttr)

\* lines 117-120 of parse_ldap_entry: data['manager'] is assigned at every
\* RDN whose first AVA names the login attribute, and the loop goes on
ManagerLogin(raw) ==
  LET rdns == str2dn(raw)
      hits == { i \in 1..Len(rdns) : rdns[i][1][1] = LoginAttr }
  IN  IF hits = {} THEN raw
      ELSE rdns[CHOOSE i \in hits : \A j \in hits : j <= i][1][2]

\* list.pop(): the last value
Pop(values) == values[Len(values)]

\* LdapWrapper.parse_ldap_entry, for a DN and an entry that are not empty
parse_ldap_entry(user_dn, entry) ==
  [email |-> Pop(entry[MailAttr]),
   firstname |-> Pop(entry[FirstnameAttr]),
   lastname |-> Pop(entry[LastnameAttr]),
   login |-> Pop(entry[LoginAttr]),
   manager |-> ManagerLogin(Pop(entry[ManagerAttr])),
   dn |-> user_dn,
   country |-> extract_country(user_dn)]

\* the item substituted as it is: an exact match on the login
LoginItem_Exact(login) == <<"c", "n", "=">> \o login

\* 'cn=*%s*' % login of search_user_by_login
LoginItem(login) == <<"c", "n", "=", "*">> \o login \o <<"*">>

\* 'cn=%s,c=%s,%s' % (login, country, self._base) of update_user and add_user
UserDn(login, country, base) ==
  <<"c", "n", "=">> \o login \o <<",", "c", "=">> \o country \o <<",">> \o base

\* ------------------------------------------------- the directory server
\* the entries of the directory when the wrapper is built, in the order the
\* server returns them; `password` is the credential the server holds for
\* the entry, never an attribute it returns
Directory ==
  << [dn |-> <<"c", "n", "=", "j", "d", "o", "e", ",", "c", "=", "f", "r", ",", "d", "c", "=", "a">>,
      password |-> "pw1",
      attrs |-> (<<"c", "n">> :> << <<"j", "d", "o", "e">> >>) @@
                (<<"m", "a", "i", "l">> :> << "j@x", "jd@x" >>) @@
                (<<"u", "i", "d">> :> << "u1" >>) @@
                (<<"g", "i", "v", "e", "n", "N", "a", "m", "e">> :> << "J" >>) @@
                (<<"s", "n">> :> << "D" >>) @@
                (<<"m", "a", "n", "a", "g", "e", "r">> :>
                   << <<"c", "n", "=", "b", "o", "b", ",", "c", "=", "f", "r", ",", "d", "c", "=", "a">> >>) @@
                (<<"o", "u">> :> << "dev" >>)],
     [dn |-> <<"c", "n", "=", "b", "o", "b", ",", "c", "=", "f", "r", ",", "d", "c", "=", "a">>,
      password |-> "pw2",
      attrs |-> (<<"c", "n">> :> << <<"b", "o", "b">> >>) @@
                (<<"m", "a", "i", "l">> :> << "b@x" >>) @@
                (<<"u", "i", "d">> :> << "u2" >>) @@
                (<<"g", "i", "v", "e", "n", "N", "a", "m", "e">> :> << "B" >>) @@
                (<<"s", "n">> :> << "O" >>) @@
                (<<"m", "a", "n", "a", "g", "e", "r">> :>
                   << <<"c", "n", "=", "b", "o", "b", ",", "c", "n", "=", "s", "t", "a", "f", "f", ",", "d", "c", "=", "a">> >>) @@
                (<<"o", "u">> :> << "dev" >>)],
     [dn |-> <<"c", "n", "=", "j", "d", "o", "e", "2", ",", "c", "=", "u", "s", ",", "d", "c", "=", "a">>,
      password |-> "pw1",
      attrs |-> (<<"c", "n">> :> << <<"j", "d", "o", "e", "2">> >>) @@
                (<<"m", "a", "i", "l">> :> << "j2@x" >>) @@
                (<<"u", "i", "d">> :> << "u3" >>) @@
                (<<"g", "i", "v", "e", "n", "N", "a", "m", "e">> :> << "J" >>) @@
                (<<"s", "n">> :> << "E" >>) @@
                (<<"m", "a", "n", "a", "g", "e", "r">> :>
                   << <<"u", "i", "d", "=", "b", "o", "b", ",", "d", "c", "=", "a">> >>) @@
                (<<"o", "u">> :> << "ops" >>)] >>

\* the bind identity of a connection that is bound as nobody
Anonymous == <<>>

\* frag occurs in s
Contains(s, frag) ==
  \E i \in 0..(Len(s) - Len(frag)) : SubSeq(s, i + 1, i + Len(frag)) = frag

\* s ends with tail
EndsWith(s, tail) ==
  Len(tail) <= Len(s) /\ SubSeq(s, Len(s) - Len(tail) + 1, Len(s)) = tail

\* s starts with head
BeginsWith(s, head) == Len(head) <= Len(s) /\ SubSeq(s, 1, Len(head)) = head

\* where the template has its "%s"
ItemAt ==
  CHOOSE i \in 1..(Len(SearchFilter) - 1) :
    SearchFilter[i] = "%" /\ SearchFilter[i + 1] = "s"

\* the part of a filter that stands where the template has its "%s"
FilterItem(what) ==
  SubSeq(what, ItemAt, Len(what) - (Len(SearchFilter) - ItemAt - 1))

\* the entry satisfies a filter the wrapper builds from its template: the
\* item is a substring match on cn, an equality match on cn, or a DN, which
\* selects the entry of that DN
Matches(e, what) ==
  LET item == FilterItem(what)
      cns == { e.attrs[LoginAttr][v] : v \in 1..Len(e.attrs[LoginAttr]) }
  IN  /\ what = Format(SearchFilter, item)
      /\ \/ /\ BeginsWith(item, <<"c", "n", "=", "*">>) /\ EndsWith(item, <<"*">>)
            /\ Len(item) >= 5
            /\ \E cn \in cns : Contains(cn, SubSeq(item, 5, Len(item) - 1))
         \/ /\ BeginsWith(item, <<"c", "n", "=">>)
            /\ SubSeq(item, 4, Len(item)) \in cns
         \/ item = e.dn

\* the attributes of an entry among those asked for
Retrieved(attrs, retrieve) ==
  [a \in { retrieve[i] : i \in 1..Len(retrieve) } \cap DOMAIN attrs |-> attrs[a]]

\* conn.search_s(base, SCOPE_SUBTREE, what, retrieve): the (dn, entry) pairs
\* of the entries under base that satisfy the filter, in the server's order
RECURSIVE search_s(_, _, _, _)
search_s(dir, base, what, retrieve) ==
  IF dir = <<>> THEN <<>>
  ELSE (IF EndsWith(Head(dir).dn, base) /\ Matches(Head(dir), what)
        THEN << <<Head(dir).dn, Retrieved(Head(dir).attrs, retrieve)>> >>
        ELSE <<>>) \o search_s(Tail(dir), base, what, retrieve)

\* the server accepts the credentials of a simple bind
BindOk(dir, dn, password) ==
  \E i \in 1..Len(dir) : dir[i].dn = dn /\ dir[i].password = password

\* conn.modify_s(dn, ldif) with the ldif of modifyModlist(old, new): the
\* entry's fields take their new values
modify_s(dir, dn, fields) ==
  [i \in 1..Len(dir) |->
     IF dir[i].dn = dn
     THEN [dir[i] EXCEPT !.attrs =
             [a \in DOMAIN dir[i].attrs |->
                IF a \in DOMAIN fields THEN fields[a] ELSE dir[i].attrs[a]]]
     ELSE dir[i]]

\* --------------------------------------------- LdapWrapper on a directory
\* no profile: the None of a call that returned nothing
NoProfile == [dn |-> Anonymous]

\* LdapWrapper._search
search(client, dir, what, retrieve) == search_s(dir, client.base, what, retrieve)

\* LdapWrapper._search_by_item: the exception it raises, "none" when it
\* returns, and the profile it returns
search_by_item(client, dir, item) ==
  LET res == search(client, dir, Format(SearchFilter, item), RequiredFields)
  IN  IF res = <<>>
      THEN [exc |-> "UnknownLdapUser", value |-> NoProfile]
      ELSE [exc |-> "none", value |-> parse_ldap_entry(res[1][1], res[1][2])]

\* LdapWrapper.search_user_by_login
search_user_by_login(client, dir, login) ==
  search_by_item(client, dir, LoginItem(login))

\* a bind that leaves the connection as it was
bind_IdentityKept(identity, dir, dn, password) == identity

\* LdapWrapper._bind: the bind identity of the connection after
\* conn.simple_bind_s(dn, password); a rejected bind leaves it anonymous
bind(identity, dir, dn, password) ==
  IF BindOk(dir, dn, password) THEN dn ELSE Anonymous

\* ------------------------------------------------------------- state
VARIABLES
  store,        \* the relational store: id -> row, for the rows that exist
  pc,           \* where ViewBase.__call__ is
  request,      \* the request of the dispatch
  caller,       \* self.login / self.user, as ViewBase.__init__ resolved them
  response,     \* the local `response` of __call__
  exc,          \* the exception in flight, "none" when there is none
  calls,        \* the calls of this dispatch, in order
  model,        \* the model instance render worked on
  added,        \* session.add(model) was called
  deleted,      \* session.delete(model) was called
  hooks,        \* what the validation hooks reported in this dispatch
  outcome,      \* how __call__ ended: returned, or raised which exception
  storeBefore,  \* the store when the dispatch began
  raisedIn,     \* the stage of __call__ that raised, "none" when none did
  clients,      \* the LdapWrapper instances built so far; a reference is an index
  instance,     \* LdapCache._instance: a reference, 0 for None
  lastConfigure,\* how the last LdapCache.configure ended
  lastGet,      \* how the last LdapCache() ended, and what held when it was called
  configured,   \* some configure has returned
  lastBuilt,    \* the instance the last configure that returned has built
  formPc,       \* update_model on a submitted form: "input", then "applied"
  formFields,   \* the request.params of that form
  formBefore,   \* the model instance before update_model
  formAfter,    \* the model instance after update_model
  directory,    \* the entries the directory server holds
  conn,         \* the bind identity of the wrapper's one connection
  th,           \* per thread: where its authenticate call is, and its locals
  lastBind,     \* the last simple_bind_s on the connection after __init__
  lastSearch,   \* the last search_s on the connection
  lastResult,   \* how the last search_user_by_login ended
  lastUpdate    \* how the last update_user ended, and the directory before it

viewVars ==
  <<store, pc, request, caller, response, exc, calls, model, added, deleted,
    hooks, outcome, storeBefore, raisedIn>>

ldapVars == <<clients, instance, lastConfigure, lastGet, configured, lastBuilt>>

formVars == <<formPc, formFields, formBefore, formAfter>>

wrapVars ==
  <<directory, conn, th, lastBind, lastSearch, lastResult, lastUpdate>>

vars == <<viewVars, ldapVars, formVars, wrapVars>>

\* what the actions of one component leave alone
otherThanView == <<ldapVars, formVars, wrapVars>>

otherThanCache == <<viewVars, formVars, wrapVars>>

otherThanForm == <<viewVars, ldapVars, wrapVars>>

otherThanWrapper == <<viewVars, ldapVars, formVars>>

NoHooks == [nStruct |-> 0, nSem |-> 0]

NoOutcome == [how |-> "none", exc |-> "none"]

\* the requests a dispatch can get: a view reads only some of the inputs,
\* the others are left at their defaults
Requests ==
  { r \in [view : ViewKinds, cancelled : BOOLEAN, submitted : BOOLEAN,
           fields : ParamSets, id : Ids, suppress : BOOLEAN] :
      /\ r.view \notin {"Create", "Edit"} => r.fields = <<>> /\ ~r.cancelled
      /\ r.view \in {"View", "Redirect"} => ~r.submitted
      /\ r.view \notin {"Edit", "Delete"} => r.id = 1 }

ViewInit ==
  /\ store = (1 :> (<<"a">> :> <<0>>))
  /\ pc = "idle"
  /\ request = NoRequest
  /\ caller = CHOOSE w \in Callers : ~w.login
  /\ response = Unbound
  /\ exc = "none"
  /\ calls = <<>>
  /\ model = NoneObj
  /\ added = FALSE
  /\ deleted = FALSE
  /\ hooks = NoHooks
  /\ outcome = NoOutcome
  /\ storeBefore = store
  /\ raisedIn = "none"

\* ViewBase.__init__ and the entry of __call__
Begin ==
  /\ UNCHANGED otherThanView
  /\ pc = "idle"
  /\ \E r \in Requests, who \in Callers :
       /\ r.view = "Create" => Cardinality(DOMAIN store) < MaxId
       /\ request' = r
       /\ caller' = who
  /\ pc' = "render"
  /\ storeBefore' = store
  /\ UNCHANGED <<store, response, exc, calls, model, added, deleted, hooks,
                 outcome, raisedIn>>

\* response = self.render()
Render ==
  /\ UNCHANGED otherThanView
  /\ pc = "render"
  /\ \E nStruct \in 0..MaxErrs, nSem \in 0..MaxErrs :
       LET r == render(request, store, nStruct, nSem)
           has(c) == \E i \in 1..Len(r.calls) : r.calls[i] = c
       IN  /\ calls' = <<"render">> \o r.calls
           /\ model' = r.model
           /\ added' = r.added
           /\ deleted' = r.deleted
           /\ hooks' = [nStruct |-> IF has("validate") THEN nStruct ELSE 0,
                        nSem |-> IF has("model.validate") THEN nSem ELSE 0]
           /\ IF r.how = "return"
              THEN /\ response' = r.response
                   /\ exc' = "none"
                   /\ raisedIn' = "none"
                   /\ pc' = "update_response"
              ELSE /\ response' = response
                   /\ exc' = r.exc
                   /\ raisedIn' = "render"
                   /\ pc' = "except"
  /\ UNCHANGED <<store, request, caller, outcome, storeBefore>>

\* update_response sending a redirect straight to "return response": the
\* flush is skipped when there is nothing to render
PostProcess_RedirectSkipsCommit ==
  /\ UNCHANGED otherThanView
  /\ pc = "update_response"
  /\ response' = update_response(response, caller)
  /\ calls' = calls \o <<"update_response">> \o CountCalls(response, caller)
  /\ pc' = IF response.kind = "redirect" THEN "return" ELSE "flush"
  /\ UNCHANGED <<store, request, caller, exc, model, added, deleted, hooks,
                 outcome, storeBefore, raisedIn>>

\* self.update_response(response) returns
PostProcess ==
  /\ UNCHANGED otherThanView
  /\ pc = "update_response"
  /\ response' = update_response(response, caller)
  /\ calls' = calls \o <<"update_response">> \o CountCalls(response, caller)
  /\ pc' = "flush"
  /\ UNCHANGED <<store, request, caller, exc, model, added, deleted, hooks,
                 outcome, storeBefore, raisedIn>>

\* self.update_response(response) raises: the count query fails
PostProcessRaises ==
  /\ UNCHANGED otherThanView
  /\ pc = "update_response"
  /\ QueriesCount(response, caller)
  /\ calls' = calls \o <<"update_response">> \o CountCalls(response, caller)
  /\ exc' = "DBError"
  /\ raisedIn' = "update_response"
  /\ pc' = "except"
  /\ UNCHANGED <<store, request, caller, response, model, added, deleted, hooks,
                 outcome, storeBefore>>

\* self.session.flush() returns
Commit ==
  /\ UNCHANGED otherThanView
  /\ pc = "flush"
  /\ store' = flush(store, model, added, deleted)
  /\ calls' = Append(calls, "flush")
  /\ pc' = "return"
  /\ UNCHANGED <<request, caller, response, exc, model, added, deleted, hooks,
                 outcome, storeBefore, raisedIn>>

\* self.session.flush() raises: the store rejects a statement
CommitRaises ==
  /\ UNCHANGED otherThanView
  /\ pc = "flush"
  /\ HasPending(model, added, deleted)
  /\ calls' = Append(calls, "flush")
  /\ exc' = "DBError"
  /\ raisedIn' = "flush"
  /\ pc' = "except"
  /\ UNCHANGED <<store, request, caller, response, model, added, deleted, hooks,
                 outcome, storeBefore>>

\* except Exception, exc: if self.on_error(exc): log, raise
ErrorHook ==
  /\ UNCHANGED otherThanView
  /\ pc = "except"
  /\ calls' = Append(calls, "on_error")
  /\ IF on_error(request)
     THEN /\ outcome' = [how |-> "raised", exc |-> exc]
          /\ pc' = "done"
     ELSE /\ outcome' = outcome
          /\ pc' = "return"
  /\ UNCHANGED <<store, request, caller, response, exc, model, added, deleted,
                 hooks, storeBefore, raisedIn>>

\* return response: an UnboundLocalError when render never returned
Return ==
  /\ UNCHANGED otherThanView
  /\ pc = "return"
  /\ outcome' = IF response.kind = "unbound"
                THEN [how |-> "raised", exc |-> "UnboundLocalError"]
                ELSE [how |-> "returned", exc |-> "none"]
  /\ pc' = "done"
  /\ UNCHANGED <<store, request, caller, response, exc, calls, model, added,
                 deleted, hooks, storeBefore, raisedIn>>

\* the request is over: the view and its session are dropped
Finish ==
  /\ UNCHANGED otherThanView
  /\ pc = "done"
  /\ pc' = "idle"
  /\ request' = NoRequest
  /\ caller' = CHOOSE w \in Callers : ~w.login
  /\ response' = Unbound
  /\ exc' = "none"
  /\ calls' = <<>>
  /\ model' = NoneObj
  /\ added' = FALSE
  /\ deleted' = FALSE
  /\ hooks' = NoHooks
  /\ outcome' = NoOutcome
  /\ storeBefore' = store
  /\ raisedIn' = "none"
  /\ UNCHANGED store

NoGet ==
  [result |-> "none", value |-> 0, configured |-> FALSE, built |-> 0,
   nclients |-> 0]

LdapInit ==
  /\ clients = <<>>
  /\ instance = 0
  /\ lastConfigure = "none"
  /\ lastGet = NoGet
  /\ configured = FALSE
  /\ lastBuilt = 0

\* LdapCache.configure(settings): cls._instance = cls.from_config(settings)
Configure ==
  /\ UNCHANGED otherThanCache
  /\ \E conf \in ConfigFiles :
       /\ lastConfigure' = LdapWrapperError(conf)
       /\ IF LdapWrapperError(conf) = "none"
          THEN /\ Len(clients) < MaxClients
               /\ clients' = Append(clients, from_config(conf))
               /\ instance' = Len(clients')
               /\ configured' = TRUE
               /\ lastBuilt' = Len(clients')
          ELSE UNCHANGED <<clients, instance, configured, lastBuilt>>
  /\ UNCHANGED lastGet

\* LdapCache(): __new__ raises RuntimeError or returns cls._instance
Get ==
  /\ UNCHANGED otherThanCache
  /\ lastGet' = [result |-> IF NotInitialized(instance)
                            THEN "RuntimeError" ELSE "instance",
                 value |-> IF NotInitialized(instance) THEN 0 ELSE instance,
                 configured |-> configured, built |-> lastBuilt,
                 nclients |-> Len(clients)]
  /\ UNCHANGED <<clients, instance, lastConfigure, configured, lastBuilt>>

\* the keys a submitted form may carry: '<model>.<field>', a key of another
\* name that begins with the model's, the bare model name, another model's
\* ------------------------------------------ the wrapper on its connection
\* the threads that share the one wrapper of LdapCache
Threads == {"t1", "t2"}

\* the logins authenticate is called with
AuthLogins == { <<"j", "d", "o", "e">>, <<"b", "o", "b">>, <<"z", "e", "d">> }

\* the logins search_user_by_login is called with
Logins == AuthLogins \cup { <<"j", "d", "o", "e", "2">>, <<"o">> }

\* the passwords the callers submit
Passwords == {"pw1", "pw2"}

\* the (login, country) pairs update_user is called with
UpdateTargets == { << <<"j", "d", "o", "e">>, <<"f", "r">> >>, << <<"j", "d", "o", "e">>, <<"u", "s">> >>, << <<"z", "e", "d">>, <<"f", "r">> >> }

\* the `fields` update_user is called with
UpdateFieldSets == { (<<"g", "i", "v", "e", "n", "N", "a", "m", "e">> :> << "K" >>), (<<"s", "n">> :> << "Z" >>) }

\* the wrapper the cache holds: built on the base DN, bound as the system
\* account
Client == LdapWrapper([basedn |-> BaseDn])

NoCallOutcome == [how |-> "none", exc |-> "none", value |-> NoProfile]

ThreadIdle ==
  [pc |-> "idle", login |-> <<>>, password |-> "none",
   user_data |-> NoProfile, binds |-> <<>>, out |-> NoCallOutcome]

NoBind == [any |-> FALSE, dn |-> Anonymous, ok |-> FALSE]

NoSearch ==
  [by |-> "none", arg |-> <<>>, what |-> <<>>, base |-> <<>>,
   retrieve |-> <<>>, identity |-> Anonymous, afterBind |-> NoBind]

NoResult == [op |-> "none", arg |-> <<>>, exc |-> "none", value |-> NoProfile]

NoUpdate ==
  [op |-> "none", arg |-> <<>>, fields |-> <<>>, found |-> FALSE,
   exc |-> "none", modified |-> FALSE, before |-> <<>>]

WrapperInit ==
  /\ directory = Directory
  /\ conn = Client.bound
  /\ th = [t \in Threads |-> ThreadIdle]
  /\ lastBind = NoBind
  /\ lastSearch = NoSearch
  /\ lastResult = NoResult
  /\ lastUpdate = NoUpdate

\* the search_s a call issues on the connection, as the server sees it
Searched(who, arg, what, retrieve) ==
  [by |-> who, arg |-> arg, what |-> what, base |-> Client.base,
   retrieve |-> retrieve, identity |-> conn, afterBind |-> lastBind]

\* authenticate(login, password), line 127: user_data =
\* self.search_user_by_login(login); UnknownLdapUser leaves the call
AuthSearch(t) ==
  /\ UNCHANGED otherThanWrapper
  /\ th[t].pc = "idle"
  /\ \E login \in AuthLogins, password \in Passwords :
       LET r == search_user_by_login(Client, directory, login)
       IN  /\ lastSearch' = Searched(t, login,
                                     Format(SearchFilter, LoginItem(login)),
                                     RequiredFields)
           /\ th' = [th EXCEPT ![t] =
                       [pc |-> IF r.exc = "none" THEN "bind" ELSE "idle",
                        login |-> login, password |-> password,
                        user_data |-> r.value, binds |-> <<>>,
                        out |-> IF r.exc = "none" THEN NoCallOutcome
                                ELSE [how |-> "raised", exc |-> r.exc,
                                      value |-> NoProfile]]]
  /\ UNCHANGED <<directory, conn, lastBind, lastResult, lastUpdate>>

\* authenticate without its bind
AuthBind_Skipped(t) ==
  /\ UNCHANGED otherThanWrapper
  /\ th[t].pc = "bind"
  /\ th' = [th EXCEPT ![t].pc = "return"]
  /\ UNCHANGED <<directory, conn, lastBind, lastSearch, lastResult, lastUpdate>>

\* authenticate, line 129: self._bind(user_data['dn'], password); the
\* rejection of the bind leaves the call
AuthBind(t) ==
  /\ UNCHANGED otherThanWrapper
  /\ th[t].pc = "bind"
  /\ LET dn == th[t].user_data.dn
         ok == BindOk(directory, dn, th[t].password)
     IN  /\ conn' = bind(conn, directory, dn, th[t].password)
         /\ lastBind' = [any |-> TRUE, dn |-> dn, ok |-> ok]
         /\ th' = [th EXCEPT
                     ![t].binds = Append(@, [dn |-> dn,
                                             password |-> th[t].password,
                                             ok |-> ok]),
                     ![t].pc = IF ok THEN "return" ELSE "idle",
                     ![t].out = IF ok THEN @
                                ELSE [how |-> "raised",
                                      exc |-> "INVALID_CREDENTIALS",
                                      value |-> NoProfile]]
  /\ UNCHANGED <<directory, lastSearch, lastResult, lastUpdate>>

\* authenticate, line 130: return user_data
AuthReturn(t) ==
  /\ UNCHANGED otherThanWrapper
  /\ th[t].pc = "return"
  /\ th' = [th EXCEPT ![t].pc = "idle",
                      ![t].out = [how |-> "returned", exc |-> "none",
                                  value |-> th[t].user_data]]
  /\ UNCHANGED <<directory, conn, lastBind, lastSearch, lastResult, lastUpdate>>

\* search_user_by_login(login), called on its own
SearchUser ==
  /\ UNCHANGED otherThanWrapper
  /\ \E login \in Logins :
       LET r == search_user_by_login(Client, directory, login)
       IN  /\ lastSearch' = Searched("search_user_by_login", login,
                                     Format(SearchFilter, LoginItem(login)),
                                     RequiredFields)
           /\ lastResult' = [op |-> "search_user_by_login", arg |-> login,
                             exc |-> r.exc, value |-> r.value]
  /\ UNCHANGED <<directory, conn, th, lastBind, lastUpdate>>

\* update_user(login, country, fields): USER_DN, entry = res[0] raises
\* IndexError on an empty result, before any modify_s
UpdateUser ==
  /\ UNCHANGED otherThanWrapper
  /\ \E target \in UpdateTargets, fields \in UpdateFieldSets :
       LET dn == UserDn(target[1], target[2], Client.base)
           what == Format(SearchFilter, dn)
           res == search(Client, directory, what, UpdateFields)
       IN  /\ lastSearch' = Searched("update_user", dn, what, UpdateFields)
           /\ lastUpdate' = [op |-> "update_user", arg |-> dn,
                             fields |-> fields, found |-> res # <<>>,
                             exc |-> IF res = <<>> THEN "IndexError"
                                     ELSE "none",
                             modified |-> res # <<>>, before |-> directory]
           /\ directory' = IF res = <<>> THEN directory
                            ELSE modify_s(directory, dn, fields)
  /\ UNCHANGED <<conn, th, lastBind, lastResult>>

ParamKeys ==
  { <<"u", ".", "a">>, <<"u", "x", ".", "b">>, <<"u">>, <<"v", ".", "a">> }

FormParams == UNION { [K -> FieldVals] : K \in SUBSET ParamKeys }

\* the instances update_model may be given: a fresh one, a loaded one
FormModels == { NewObj, LoadedObj(1, (<<"a">> :> <<0>>)) }

\* no form is being applied
FormIdle ==
  /\ formPc = "idle"
  /\ formFields = <<>>
  /\ formBefore = NewObj
  /\ formAfter = NewObj

\* a form and an instance are at hand
FormDrawn ==
  /\ formPc = "input"
  /\ formFields \in FormParams
  /\ formBefore \in FormModels
  /\ formAfter = formBefore

\* self.update_model(model)
ApplyForm ==
  /\ UNCHANGED otherThanForm
  /\ formPc = "input"
  /\ formAfter' = update_model(formBefore, formFields)
  /\ formPc' = "applied"
  /\ UNCHANGED <<formFields, formBefore>>

Init == ViewInit /\ LdapInit /\ FormIdle /\ WrapperInit

Next ==
  \/ Begin
  \/ Render
  \/ PostProcess
  \/ PostProcessRaises
  \/ Commit
  \/ CommitRaises
  \/ ErrorHook
  \/ Return
  \/ Finish

Spec == Init /\ [][Next]_vars

LdapNext ==
  \/ Configure
  \/ Get

LdapSpec == Init /\ [][LdapNext]_vars

FormInit == ViewInit /\ LdapInit /\ FormDrawn /\ WrapperInit

FormNext == ApplyForm

FormSpec == FormInit /\ [][FormNext]_vars

AuthNext ==
  \/ \E t \in Threads : AuthSearch(t)
  \/ \E t \in Threads : AuthBind(t)
  \/ \E t \in Threads : AuthReturn(t)

AuthSpec == Init /\ [][AuthNext]_vars

DirectoryNext ==
  \/ SearchUser
  \/ UpdateUser

DirectorySpec == Init /\ [][DirectoryNext]_vars

\* ------------------------------------------------------------- claims
Called(c) == \E i \in 1..Len(calls) : calls[i] = c

Count(c) == Cardinality({ i \in 1..Len(calls) : calls[i] = c })

\* render has run in the current dispatch
RenderDone == pc \notin {"idle", "render"}

\* render has returned (it did not raise)
RenderReturned == RenderDone /\ raisedIn # "render"

\* session.flush has returned in the current dispatch
Committed == Called("flush") /\ raisedIn # "flush"

CrudForm == request.view \in {"Create", "Edit"}

\* the draft as get_model delivered it, before any update
Draft == get_model(request.view, storeBefore, request.id)

\* C1: in the Create and Edit flows, a request with neither marker whose
\* model was obtained gets the form payload (empty error list, the draft
\* under the model's name, a CSRF token); nothing is validated, applied,
\* staged or written to the store.
C1_UnsubmittedFormIsDisplayedOnly ==
  (RenderDone /\ CrudForm /\ ~request.cancelled /\ ~request.submitted
     /\ Draft.kind # "none")
  => /\ raisedIn # "render"
     /\ response.kind = "dict"
     /\ {"errors", "model", "csrf_token"} \subseteq response.keys
     /\ response.errors = <<>>
     /\ response.model = Draft
     /\ model = Draft
     /\ Called("get_csrf_token")
     /\ ~added
     /\ ~Called("save_model")
     /\ ~Called("validate")
     /\ ~Called("update_model")
     /\ ~Called("model.validate")
     /\ store = storeBefore

\* an Edit form was displayed for a stored row, with a field value in the
\* request, and the dispatch has committed
C1_Witness ==
  /\ pc = "done"
  /\ request.view = "Edit"
  /\ ~request.cancelled /\ ~request.submitted
  /\ Draft.kind = "loaded"
  /\ \E k \in DOMAIN request.fields : Len(request.fields[k]) > 0
  /\ Committed
  /\ outcome.how = "returned"

\* C2: in the Create and Edit flows, a request carrying 'form.cancelled'
\* (with or without 'form.submitted') is answered by a redirect, and render
\* calls none of get_model, validate, update_model, model.validate,
\* save_model on the way.
C2_CancelledRedirectsUntouched ==
  (RenderDone /\ CrudForm /\ request.cancelled)
  => /\ raisedIn # "render"
     /\ response.kind = "redirect"
     /\ ~Called("get_model")
     /\ ~Called("validate")
     /\ ~Called("update_model")
     /\ ~Called("model.validate")
     /\ ~Called("save_model")
     /\ model.kind = "none"
     /\ ~added
     /\ store = storeBefore

\* a cancelled and submitted Edit of an identifier the store does not hold
\* has been redirected
C2_Witness ==
  /\ pc = "done"
  /\ request.view = "Edit"
  /\ request.cancelled /\ request.submitted
  /\ request.id \notin DOMAIN storeBefore
  /\ response.kind = "redirect"
  /\ outcome.how = "returned"

\* C3: in a submitted Create or Edit, update_model is called exactly when
\* the structural stage reported no error, and model.validate is called
\* only then (always then, when there is a model); with structural errors
\* the draft is as get_model delivered it, model.validate is not called and
\* the form is returned with the structural errors and no other.
C3_SemanticStageOnlyAfterCleanStructuralStage ==
  (RenderDone /\ CrudForm /\ ~request.cancelled /\ request.submitted)
  => /\ Count("validate") = 1
     /\ Called("update_model") <=> hooks.nStruct = 0
     /\ Called("model.validate") => hooks.nStruct = 0
     /\ (hooks.nStruct = 0 /\ Draft.kind # "none") => Called("model.validate")
     /\ hooks.nStruct > 0 =>
          /\ model = Draft
          /\ ~Called("model.validate")
          /\ raisedIn # "render"
          /\ response.kind = "dict"
          /\ response.errors = StructErrs(hooks.nStruct)
          /\ response.model = Draft

\* two structural errors on a submitted Edit that carries a value for a
\* column of the stored row
C3_Witness ==
  /\ RenderReturned
  /\ request.view = "Edit"
  /\ ~request.cancelled /\ request.submitted
  /\ hooks.nStruct = 2
  /\ Draft.kind = "loaded"
  /\ update_model(Draft, request.fields) # Draft
  /\ Len(response.errors) = 2

\* C4: in a submitted Create or Edit with a model, a ModelError of
\* model.validate does not leave render: the form is returned with its
\* errors in the list and save_model is not called; save_model is called
\* (once) and a redirect returned exactly when no error is in the list
\* after both stages.
C4_ModelErrorIsDisplayedNotRaised ==
  (RenderDone /\ CrudForm /\ ~request.cancelled /\ request.submitted
     /\ Draft.kind # "none")
  => /\ raisedIn # "render"
     /\ hooks.nSem > 0 =>
          /\ Called("model.validate")
          /\ response.kind = "dict"
          /\ response.errors = SemErrs(hooks.nSem)
          /\ ~Called("save_model")
          /\ ~added
     /\ Count("save_model") <= 1
     /\ added <=> Called("save_model")
     /\ (Called("save_model") /\ response.kind = "redirect")
          <=> (hooks.nStruct = 0 /\ hooks.nSem = 0)
     /\ (Called("save_model") \/ response.kind = "redirect")
          => (hooks.nStruct = 0 /\ hooks.nSem = 0)
     /\ response.kind = "dict" =>
          response.errors = StructErrs(hooks.nStruct) \o SemErrs(hooks.nSem)

\* model.validate raised a ModelError in a submitted Create, and the
\* dispatch returned the form
C4_Witness ==
  /\ pc = "done"
  /\ request.view = "Create"
  /\ request.submitted /\ ~request.cancelled
  /\ hooks.nSem > 0
  /\ Called("model.validate")
  /\ outcome.how = "returned"
  /\ response.kind = "dict"

\* C5 (as claimed): when a submitted Edit fails model.validate, the store
\* after the commit of the same dispatch is the store before the request.
C5_FailedEditLeavesStoreUnchanged ==
  (request.view = "Edit" /\ request.submitted /\ ~request.cancelled
     /\ Called("model.validate") /\ hooks.nSem > 0 /\ Committed)
  => store = storeBefore

\* C6: an exception raised by render or by update_response keeps
\* session.flush from being called in that dispatch; with the default
\* on_error the dispatch ends raising that same exception, never returning
\* a response.
C6_RenderOrPostProcessFailureAbortsCommit ==
  raisedIn \in {"render", "update_response"}
  => /\ ~Called("flush")
     /\ store = storeBefore
     /\ exc # "none"
     /\ ~request.suppress =>
          /\ pc \in {"except", "done"}
          /\ outcome.how # "returned"
          /\ pc = "done" => outcome = [how |-> "raised", exc |-> exc]

\* update_response failed on the count query of a form payload, and the
\* default on_error let the exception through
C6_Witness ==
  /\ pc = "done"
  /\ raisedIn = "update_response"
  /\ ~request.suppress
  /\ response.kind = "dict"
  /\ outcome = [how |-> "raised", exc |-> "DBError"]

\* C7 (as claimed): with on_error overridden to return False, a dispatch in
\* which render, update_response or flush raised ends without raising.
C7_SuppressedErrorNeverReachesFramework ==
  (pc = "done" /\ request.suppress /\ raisedIn # "none")
  => outcome.how # "raised"

\* C8 (as claimed): an Edit (not cancelled) or a Delete of an identifier the
\* store does not hold ends raising, and never holds a payload with an
\* absent model.
C8_MissingModelIsFatal ==
  (RenderDone /\ request.id \notin DOMAIN storeBefore
     /\ \/ request.view = "Edit" /\ ~request.cancelled
        \/ request.view = "Delete")
  => /\ raisedIn = "render"
     /\ response.kind # "dict"
     /\ pc = "done" => outcome.how = "raised"

\* C9: in a Delete of a stored model, session.delete is called (once, on
\* the loaded model, and a redirect returned) exactly when the request
\* carries 'form.submitted'; without it the payload holding the model is
\* returned, session.delete is not called, and the row is in the store,
\* unchanged, after the commit.  With it the row is gone after the commit.
C9_DeleteOnlyWhenConfirmed ==
  (RenderDone /\ request.view = "Delete" /\ request.id \in DOMAIN storeBefore)
  => /\ raisedIn # "render"
     /\ model = by_id(storeBefore, request.id)
     /\ deleted <=> request.submitted
     /\ Count("delete") = (IF request.submitted THEN 1 ELSE 0)
     /\ request.submitted =>
          /\ response.kind = "redirect"
          /\ Committed => request.id \notin DOMAIN store
          /\ ~Committed => store = storeBefore
     /\ ~request.submitted =>
          /\ response.kind = "dict"
          /\ "model" \in response.keys
          /\ "errors" \notin response.keys
          /\ response.model = by_id(storeBefore, request.id)
          /\ store = storeBefore

\* an unconfirmed Delete of a stored model has committed and returned the
\* confirmation payload
C9_Witness ==
  /\ pc = "done"
  /\ request.view = "Delete"
  /\ ~request.submitted
  /\ request.id \in DOMAIN store
  /\ Committed
  /\ outcome.how = "returned"
  /\ response.model.kind = "loaded"

\* C10: LdapCache() raises RuntimeError when no configure has returned yet
\* (a configure that raised does not count); once a configure has returned
\* it returns the instance the last such configure built, an instance that
\* existed before the call.
C10_GetFollowsLastSuccessfulConfigure ==
  /\ lastGet.result # "none" =>
       /\ ~lastGet.configured =>
            lastGet.result = "RuntimeError"
       /\ lastGet.configured =>
            /\ lastGet.result = "instance"
            /\ lastGet.value = lastGet.built
            /\ lastGet.value \in 1..lastGet.nclients
  /\ configured <=> instance # 0
  /\ instance = lastBuilt
  /\ instance \in 0..Len(clients)

\* a get after a failed configure raised RuntimeError
C10_Witness ==
  /\ lastConfigure \notin {"none"}
  /\ ~configured
  /\ lastGet.result = "RuntimeError"

\* the Request count queries of the current dispatch
CountQueries ==
  { i \in 1..Len(calls) : calls[i] \in {"all_for_admin", "by_manager", "by_user"} }

\* update_response has returned in the current dispatch
PostProcessed == Called("update_response") /\ raisedIn # "update_response"

\* the role precedence of the count: administrator, then approver, then own
RoleCount ==
  IF caller.is_admin THEN "all_for_admin"
  ELSE IF caller.is_super THEN "by_manager"
  ELSE "by_user"

\* C15 (as claimed): after update_response, a redirect is untouched and a
\* mapping holds the global context; the count is injected for every
\* authenticated (non-anonymous) caller and for no anonymous one, by role
\* precedence, and one count query is made.
C15_CountForEveryAuthenticatedCaller ==
  PostProcessed =>
    /\ response.kind = "redirect" => response = redirect
    /\ response.kind = "dict" =>
         /\ "pyvac" \in response.keys
         /\ caller.login =>
              /\ response.requests_count = RoleCount
              /\ Cardinality(CountQueries) = 1
         /\ ~caller.login => response.requests_count = "none"

\* C15 (amended): after update_response, a redirect is untouched (no global
\* context, no count query) and a mapping holds the global context; the
\* count is injected exactly for the callers whose user record was found
\* (self.user), not for an anonymous caller nor for a login without a user
\* record; it is the administrator's count, else the approver's, else the
\* caller's own, and that one query is the only count query of the dispatch.
C15_CountForEveryResolvedUser ==
  PostProcessed =>
    /\ response.kind = "redirect" =>
         /\ response = redirect
         /\ CountQueries = {}
    /\ response.kind = "dict" =>
         /\ "pyvac" \in response.keys
         /\ caller.user =>
              /\ response.requests_count = RoleCount
              /\ Cardinality(CountQueries) = 1
              /\ \A i \in CountQueries : calls[i] = RoleCount
         /\ ~caller.user =>
              /\ response.requests_count = "none"
              /\ CountQueries = {}

\* an administrator who is also a delegated approver got the form payload
\* with the administrator's count
C15_Witness ==
  /\ PostProcessed
  /\ response.kind = "dict"
  /\ caller.user /\ caller.is_admin /\ caller.is_super
  /\ response.requests_count = "all_for_admin"
  /\ Called("all_for_admin")

\* the calls of __call__ itself, in order
Stages ==
  SelectSeq(calls, LAMBDA c : c \in {"render", "update_response", "flush"})

\* C18: a dispatch whose render and update_response both succeed runs
\* render, update_response, session.flush in that order, each once, for
\* every kind of render result (form payload, confirmation payload,
\* redirect; the cancelled and invalid-form paths too); flush is never
\* called before update_response has returned.
C18_RenderPostProcessCommitInOrder ==
  /\ Called("flush") =>
       /\ Stages = <<"render", "update_response", "flush">>
       /\ PostProcessed
  /\ (pc \in {"return", "done"} /\ raisedIn \notin {"render", "update_response"})
       => Stages = <<"render", "update_response", "flush">>
  /\ pc = "flush" => Stages = <<"render", "update_response">>
  /\ Len(Stages) <= 3

\* a cancelled Edit has been committed and answered with the redirect
C18_Witness ==
  /\ pc = "done"
  /\ request.view = "Edit" /\ request.cancelled
  /\ response.kind = "redirect"
  /\ Committed
  /\ outcome.how = "returned"

\* the attributes update_model set or changed
FormChanged ==
  { n \in DOMAIN formAfter.attrs :
      n \notin DOMAIN formBefore.attrs \/ formAfter.attrs[n] # formBefore.attrs[n] }

\* the key '<model-name>.<field>'
ExactKey(field) == Tablename \o <<".">> \o field

\* C16 (as claimed): update_model sets an attribute <field> only for a
\* parameter whose key is exactly '<model-name>.<field>' and whose value is
\* not empty, to that value; every other parameter changes nothing.
C16_OnlyExactPrefixedFieldsApplied ==
  formPc = "applied" =>
    /\ \A n \in FormChanged :
         /\ ExactKey(n) \in DOMAIN formFields
         /\ Len(formFields[ExactKey(n)]) > 0
         /\ formAfter.attrs[n] = formFields[ExactKey(n)]
    /\ \A n \in DOMAIN formBefore.attrs :
         /\ n \in DOMAIN formAfter.attrs
         /\ (ExactKey(n) \notin DOMAIN formFields \/ formFields[ExactKey(n)] = <<>>)
              => formAfter.attrs[n] = formBefore.attrs[n]

\* ------------------------------------------------------ authenticate
\* the entries whose cn holds the login as a substring, in directory order
EntriesFor(login) ==
  { i \in 1..Len(directory) :
      \E v \in 1..Len(directory[i].attrs[<<"c", "n">>]) :
        Contains(directory[i].attrs[<<"c", "n">>][v], login) }

FirstEntryFor(login) ==
  directory[CHOOSE i \in EntriesFor(login) : \A j \in EntriesFor(login) : i <= j]

\* the call of the thread is over
CallOver(t) == th[t].pc = "idle" /\ th[t].out.how # "none"

\* C11: authenticate returns a profile only after one bind with that
\* profile's DN and the supplied password, which the server accepted, and the
\* profile is the one search_user_by_login resolves for the login; a login
\* with no result ends in UnknownLdapUser with no bind attempted; a rejected
\* bind ends in the bind's failure and no profile.
C11_ProfileOnlyAfterAcceptedBind ==
  \A t \in Threads :
    LET c == th[t]
    IN  /\ c.out.how = "returned" =>
             /\ c.binds = << [dn |-> c.out.value.dn, password |-> c.password,
                              ok |-> TRUE] >>
             /\ \E i \in 1..Len(directory) :
                  /\ directory[i].dn = c.out.value.dn
                  /\ directory[i].password = c.password
             /\ EntriesFor(c.login) # {}
             /\ c.out.value.dn = FirstEntryFor(c.login).dn
             /\ c.out.value =
                  parse_ldap_entry(FirstEntryFor(c.login).dn,
                                   FirstEntryFor(c.login).attrs)
        /\ (CallOver(t) /\ EntriesFor(c.login) = {}) =>
             /\ c.out = [how |-> "raised", exc |-> "UnknownLdapUser",
                         value |-> NoProfile]
             /\ c.binds = <<>>
        /\ (c.pc # "idle" \/ c.binds # <<>>) => EntriesFor(c.login) # {}
        /\ (\E i \in 1..Len(c.binds) : ~c.binds[i].ok) =>
             /\ CallOver(t)
             /\ c.out = [how |-> "raised", exc |-> "INVALID_CREDENTIALS",
                         value |-> NoProfile]

\* one call returned a profile and another was rejected at the bind or met an
\* unknown login
C11_Witness ==
  \E t, u \in Threads :
    /\ th[t].out.how = "returned"
    /\ th[t].out.value.login = <<"j", "d", "o", "e">>
    /\ th[u].out.exc \in {"INVALID_CREDENTIALS", "UnknownLdapUser"}

\* the identity a bind leaves on the connection: the DN when the server
\* accepted it, and not the system account in either case
LeftBy(b, identity) ==
  IF b.any THEN identity # SystemDn /\ (b.ok => identity = b.dn)
  ELSE identity = SystemDn

\* C12: the one connection is bound as the system account until the first
\* bind of an authenticate, never again after it, and as the user's DN after
\* an accepted bind; every search, the search of a second authenticate
\* included, runs under the identity the most recent bind left.
C12_SearchesRunUnderLastBindIdentity ==
  /\ LeftBy(lastBind, conn)
  /\ lastSearch.by # "none" => LeftBy(lastSearch.afterBind, lastSearch.identity)
  /\ \A t \in Threads :
       (lastSearch.by = t /\ th[t].pc = "bind" /\ th[t].binds = <<>>
          /\ lastSearch.afterBind = lastBind) =>
         lastSearch.identity = conn

\* the search of one authenticate ran under the identity of the user another
\* authenticate, still in flight, had just bound as
C12_Witness ==
  \E t, u \in Threads :
    /\ t # u
    /\ th[u].pc = "return"
    /\ th[t].pc = "bind"
    /\ lastSearch.by = t
    /\ lastSearch.identity = th[u].user_data.dn
    /\ th[t].user_data.dn # th[u].user_data.dn

\* ------------------------------------------------------- update_user
\* C13: an update_user whose search found no entry ends in UnknownLdapUser
\* and modifies nothing.
C13_UpdateOfMissingEntryIsUnknownUser ==
  (lastUpdate.op = "update_user" /\ ~lastUpdate.found) =>
    /\ lastUpdate.exc = "UnknownLdapUser"
    /\ ~lastUpdate.modified
    /\ directory = lastUpdate.before

\* ------------------------------------------------- search_user_by_login
\* the search on the connection is the one of the last search_user_by_login
LoginSearchDone ==
  /\ lastSearch.by = "search_user_by_login"
  /\ lastResult.op = "search_user_by_login"
  /\ lastResult.arg = lastSearch.arg

\* the entry a profile was decoded from
EntryOf(profile) ==
  directory[CHOOSE i \in 1..Len(directory) : directory[i].dn = profile.dn]

\* C14: the manager of a decoded profile is the value of the first
\* login-attribute component of the entry's manager DN, and never the
\* manager DN itself.
C14_ManagerIsFirstLoginComponent ==
  (LoginSearchDone /\ lastResult.exc = "none") =>
    LET raw == Pop(EntryOf(lastResult.value).attrs[<<"m", "a", "n", "a", "g", "e", "r">>])
    IN  /\ lastResult.value.manager # raw
        /\ lastResult.value.manager = ExtractFirst(raw, <<"c", "n">>)

\* what search_user_by_login does with the answer: the first match decoded,
\* UnknownLdapUser when there is none
LoginSearchAnswered ==
  /\ lastSearch.base = <<"d", "c", "=", "a">>
  /\ lastSearch.retrieve =
       << <<"c", "n">>, <<"m", "a", "i", "l">>, <<"u", "i", "d">>, <<"g", "i", "v", "e", "n", "N", "a", "m", "e">>, <<"s", "n">>, <<"m", "a", "n", "a", "g", "e", "r">> >>
  /\ IF EntriesFor(lastSearch.arg) = {}
     THEN lastResult.exc = "UnknownLdapUser" /\ lastResult.value = NoProfile
     ELSE /\ lastResult.exc = "none"
          /\ lastResult.value =
               parse_ldap_entry(FirstEntryFor(lastSearch.arg).dn,
                                FirstEntryFor(lastSearch.arg).attrs)

\* C17, as stated: the filter is the template with the login in it.
C17_FilterIsTemplateWithLogin ==
  LoginSearchDone =>
    /\ lastSearch.what = Format(SearchFilter, lastSearch.arg)
    /\ LoginSearchAnswered

\* C17: search_user_by_login submits the template with 'cn=*<login>*' in it,
\* over the base-DN subtree, for cn, mail, uid, givenName, sn and manager; it
\* decodes the first match and raises UnknownLdapUser when there is none.
C17_FilterIsTemplateWithWildcardItem ==
  LoginSearchDone =>
    /\ lastSearch.what =
         Format(SearchFilter, <<"c", "n", "=", "*">> \o lastSearch.arg \o <<"*">>)
    /\ Format(<<"(", "c", "n", "=", "%", "s", ")">>, <<"c", "n", "=", "*">> \o <<"j", "d", "o", "e">> \o <<"*">>) = <<"(", "c", "n", "=", "c", "n", "=", "*", "j", "d", "o", "e", "*", ")">>
    /\ LoginSearchAnswered

\* a login that matches two entries was searched and the first was decoded
C17_Witness ==
  /\ LoginSearchDone
  /\ lastSearch.arg = <<"j", "d", "o", "e">>
  /\ Cardinality(EntriesFor(lastSearch.arg)) = 2
  /\ lastResult.value.login = <<"j", "d", "o", "e">>

====
